---- MODULE Spec2Model ----
(***************************************************************************)
(* Model of the krb5kdc sampler (src/samplers/krb5kdc/mod.rs): the         *)
(* construction path spawn -> new -> init_bpf, and the sampling task that  *)
(* runs sample() in a loop.  sample() is modelled statement by statement   *)
(* (pc), because the claims are about the position of the handle lock and  *)
(* of the record_counter calls inside one tick.                            *)
(***************************************************************************)
EXTENDS Integers, Sequences, FiniteSets, TLC

\* ---------------------------------------------------------------- bounds
\* cap on the sum of all kernel counters (u64 in the program)
MaxCount == 2
\* cap on the monotonic clock (Instant::now())
MaxTime == 1
\* longest configured statistics list
MaxStats == 3

\* ------------------------------------------------------- program constants
\* the three counter tables read by sample(), in reading order
TableNames ==
    << "counts_finish_process_as_req",
       "counts_finish_dispatch_cache",
       "counts_process_tgs_req" >>

\* the three probes of init_bpf, in attachment order; each probe feeds the
\* table of the same index in TableNames
ProbeSpecs ==
    << "finish_process_as_req", "finish_dispatch_cache", "process_tgs_req" >>

Probes == {ProbeSpecs[i] : i \in 1..Len(ProbeSpecs)}

\* table fed by a probe
TableOf(p) == TableNames[CHOOSE i \in 1..Len(ProbeSpecs) : ProbeSpecs[i] = p]

\* Raw keys of a kernel table: fixed-width char arrays, NUL padded.
RawKeys == { <<1, 0>> }

\* A statistic descriptor: stat.bpf_table(), stat.bpf_entry().  The key
\* <<1>> is the normalised form of the raw key, <<2>> is a key no table holds.
Stat(t, k) == [table |-> t, key |-> k]

\* Two configurations of the statistics list; the second names a table that
\* is not one of the three tables read (the else branch of the emit loop).
BaseLists ==
    { << Stat(TableNames[1], <<1>>), Stat(TableNames[1], <<2>>),
         Stat(TableNames[2], <<1>>), Stat(TableNames[3], <<1>>) >>,
      << Stat(TableNames[3], <<1>>), Stat("counts_other", <<1>>),
         Stat(TableNames[3], <<2>>), Stat(TableNames[2], <<1>>) >> }

StatLists == { SubSeq(L, 1, n) : L \in BaseLists, n \in {1, MaxStats} }

\* ------------------------------------------------------------------ state
VARIABLES
    pc,           \* position of the program: spawn, then inside the task loop
    featureBpf,   \* cfg(feature = "bpf")
    fault_tolerant, \* config: general().fault_tolerant()
    enabled,      \* config: samplers().krb5kdc().enabled()
    statistics,   \* Krb5kdc.statistics
    bpf,          \* Krb5kdc.bpf : "None" or "Some"
    bpf_last,     \* Krb5kdc.bpf_last
    registered,   \* whether register() ran in new
    initResult,   \* what init_bpf returned: "none" (not called), "Ok", "Err"
    newResult,    \* what new returned: "none" (not called), "Ok", "Err"
    attempts,     \* probes whose attachment init_bpf attempted, in order
    failed,       \* probes whose attachment returned an error
    attached,     \* probes that are live in the kernel
    tables,       \* kernel counter tables: table name -> (raw key -> count)
    lockHolder,   \* holder of the Mutex around BPF: "none", "sampler", "reader"
    table_map,    \* local table_map of sample(): the snapshot of this tick
    idx,          \* position in the table reads, then in the for loop
    tickObs,      \* observations record_counter accepted in this tick
    ret,          \* what sample() returned for this tick
    outcome,      \* the path by which the last finished tick left sample()
    now,          \* the monotonic clock
    loadResult,   \* what bcc::BPF::new returned: "none" (not called), "Ok", "Err"
    trace,        \* the steps of the running tick, in the order they happened
    captured      \* the Instant::now() of the last record_counter of this tick

\* configuration, fixed for the life of the process
config == << featureBpf, fault_tolerant, statistics >>
\* what construction sets
built == << bpf, bpf_last, registered, initResult, newResult, attempts,
            failed, attached >>
\* the locals and the result of the running tick
tick == << table_map, idx, tickObs, ret >>

\* what is remembered of the running tick
history == << trace, captured >>

vars == << pc, config, enabled, built, tables, lockHolder, tick, outcome, now,
           loadResult, history >>

EmptyMap == << >>

EmptyTables == [t \in {TableNames[i] : i \in 1..Len(TableNames)} |-> EmptyMap]

\* ------------------------------------------------------------------- Init
Init ==
    /\ pc = "Start"
    /\ featureBpf \in BOOLEAN
    /\ fault_tolerant \in BOOLEAN
    /\ enabled \in BOOLEAN
    /\ statistics \in StatLists
    /\ bpf = "None"
    /\ bpf_last = 0
    /\ registered = FALSE
    /\ initResult = "none"
    /\ newResult = "none"
    /\ attempts = << >>
    /\ failed = {}
    /\ attached = {}
    /\ tables = EmptyTables
    /\ lockHolder = "none"
    /\ table_map = EmptyMap
    /\ idx = 0
    /\ tickObs = << >>
    /\ ret = "none"
    /\ outcome = "none"
    /\ now = 0
    /\ loadResult = "none"
    /\ trace = << >>
    /\ captured = 0

\* ---------------------------------------------------------------- helpers
\* sum of a function's values
RECURSIVE SumOver(_, _)
SumOver(f, S) ==
    IF S = {} THEN 0
    ELSE LET x == CHOOSE y \in S : TRUE
         IN f[x] + SumOver(f, S \ {x})

TableTotal(t) == SumOver(tables[t], DOMAIN tables[t])

TotalCount ==
    SumOver([t \in DOMAIN tables |-> TableTotal(t)], DOMAIN tables)

\* A C string held in a fixed-width char array: the bytes before the first NUL.
RECURSIVE Normalize(_)
Normalize(raw) ==
    IF raw = << >> \/ Head(raw) = 0 THEN << >>
    ELSE << Head(raw) >> \o Normalize(Tail(raw))

\* bpf_hash_char_to_map: materialise a kernel table as key string -> count
bpf_hash_char_to_map(t) ==
    [k \in {Normalize(r) : r \in DOMAIN t} |->
        t[CHOOSE r \in DOMAIN t : Normalize(r) = k]]

\* Resolve with the key lookup lost: any entry of the statistic's table
ResolveIgnoresKey(tm, stat) ==
    IF stat.table \in DOMAIN tm
    THEN IF DOMAIN tm[stat.table] # {}
         THEN tm[stat.table][CHOOSE k \in DOMAIN tm[stat.table] : TRUE]
         ELSE 0
    ELSE 0

\* Krb5kdc.statistics resolved against the snapshot: the value the emit loop
\* passes to record_counter for one statistic (lines 194-203)
Resolve(tm, stat) ==
    IF stat.table \in DOMAIN tm
    THEN IF stat.key \in DOMAIN tm[stat.table]
         THEN tm[stat.table][stat.key]
         ELSE 0
    ELSE 0

\* DropGuard for a guard that is leaked instead of dropped
DropGuardLeak(h) == h

\* The MutexGuard `bpf` of sample() goes out of scope: at the end of the
\* `if let Some` block and on every `?` that leaves it.
DropGuard(h) == IF h = "sampler" THEN "none" ELSE h

\* ------------------------------------------------------------ construction
\* AttachFrom without the fault_tolerant test: any failure is returned
RECURSIVE AttachFromStrict(_, _, _, _, _, _)
AttachFromStrict(i, ok, ft, tried, bad, live) ==
    IF i > Len(ProbeSpecs)
    THEN [result |-> "Ok", bpf |-> "Some", attempts |-> tried,
          failed |-> bad, attached |-> live]
    ELSE LET p == ProbeSpecs[i]
         IN IF ok[p]
            THEN AttachFromStrict(i + 1, ok, ft, Append(tried, p), bad,
                                  live \cup {p})
            ELSE [result |-> "Err", bpf |-> "None",
                  attempts |-> Append(tried, p),
                  failed |-> bad \cup {p}, attached |-> {}]

\* init_bpf: the probes from position i on, given the outcome ok[p] of each
\* attachment.  Yields what init_bpf returns, the handle it stores, the
\* probes it attempted, those that failed and those left attached.
RECURSIVE AttachFrom(_, _, _, _, _, _)
AttachFrom(i, ok, ft, tried, bad, live) ==
    IF i > Len(ProbeSpecs)
    THEN [result |-> "Ok", bpf |-> "Some", attempts |-> tried,
          failed |-> bad, attached |-> live]
    ELSE LET p == ProbeSpecs[i]
         IN IF ok[p]
            THEN AttachFrom(i + 1, ok, ft, Append(tried, p), bad, live \cup {p})
            ELSE IF ft
                 THEN \* warn!, and on to the next probe
                      AttachFrom(i + 1, ok, ft, Append(tried, p),
                                 bad \cup {p}, live)
                 ELSE \* Err(err)?: the local program is dropped with its probes
                      [result |-> "Err", bpf |-> "None",
                       attempts |-> Append(tried, p),
                       failed |-> bad \cup {p}, attached |-> {}]

\* init_bpf that swallows a failed load when fault_tolerant
init_bpfLoadSwallowed(feature, loadOk, ok, ft) ==
    IF ~feature
    THEN [result |-> "Ok", load |-> "none", bpf |-> "None",
          attempts |-> << >>, failed |-> {}, attached |-> {}]
    ELSE IF ~loadOk
         THEN [result |-> IF ft THEN "Ok" ELSE "Err", load |-> "Err",
               bpf |-> "None", attempts |-> << >>, failed |-> {},
               attached |-> {}]
         ELSE LET a == AttachFrom(1, ok, ft, << >>, {}, {})
              IN [result |-> a.result, load |-> "Ok", bpf |-> a.bpf,
                  attempts |-> a.attempts, failed |-> a.failed,
                  attached |-> a.attached]

\* init_bpf: load the program, then the probes
init_bpf(feature, loadOk, ok, ft) ==
    IF ~feature
    THEN [result |-> "Ok", load |-> "none", bpf |-> "None",
          attempts |-> << >>, failed |-> {}, attached |-> {}]
    ELSE IF ~loadOk
         THEN \* bcc::BPF::new(code)?
              [result |-> "Err", load |-> "Err", bpf |-> "None",
               attempts |-> << >>, failed |-> {}, attached |-> {}]
         ELSE LET a == AttachFrom(1, ok, ft, << >>, {}, {})
              IN [result |-> a.result, load |-> "Ok", bpf |-> a.bpf,
                  attempts |-> a.attempts, failed |-> a.failed,
                  attached |-> a.attached]

\* NewResult that propagates every error of init_bpf (sampler.init_bpf()?)
NewResultPropagates(r, ft) ==
    IF r = "Err" THEN "Err" ELSE "Ok"

\* NewResult without the `return Err(e)`
NewResultAlwaysOk(r, ft) == "Ok"

\* new: what it returns, given the outcome of init_bpf
NewResult(r, ft) ==
    IF r = "Err" /\ ~ft THEN "Err" ELSE "Ok"

\* spawn: where the program stands once new has returned
AfterNew(n, ft) ==
    IF n = "Ok" THEN "WaitingForTick"
    ELSE IF ~ft THEN "Fatal" ELSE "Failed"

\* SpawnDisabled that builds the sampler before it looks at the flag
SpawnDisabledBuilds ==
    /\ pc = "Start"
    /\ ~enabled
    /\ pc' = "NotSpawned"
    /\ initResult' = "Ok"
    /\ newResult' = "Ok"
    /\ loadResult' = IF featureBpf THEN "Ok" ELSE "none"
    /\ UNCHANGED << config, enabled, bpf, bpf_last, registered, attempts,
                    failed, attached, tables, lockHolder, tick, outcome, now,
                    history >>

\* spawn with the sampler disabled in the configuration: nothing is built
SpawnDisabled ==
    /\ pc = "Start"
    /\ ~enabled
    /\ pc' = "NotSpawned"
    /\ UNCHANGED << loadResult, history >>
    /\ UNCHANGED << config, enabled, built, tables, lockHolder, tick,
                    outcome, now >>

\* spawn with the sampler enabled: new, init_bpf, and the task on Ok
SpawnEnabled ==
    /\ pc = "Start"
    /\ enabled
    /\ \E loadOk \in BOOLEAN, ok \in [Probes -> BOOLEAN] :
         LET r == init_bpf(featureBpf, loadOk, ok, fault_tolerant)
             n == NewResult(r.result, fault_tolerant)
         IN /\ bpf_last' = now
            /\ initResult' = r.result
            /\ loadResult' = r.load
            /\ attempts' = r.attempts
            /\ failed' = r.failed
            /\ newResult' = n
            /\ pc' = AfterNew(n, fault_tolerant)
            /\ IF n = "Ok"
               THEN /\ bpf' = r.bpf
                    /\ attached' = r.attached
                    /\ registered' = TRUE
               ELSE \* the sampler built by new is dropped
                    /\ bpf' = "None"
                    /\ attached' = {}
                    /\ registered' = FALSE
    /\ UNCHANGED history
    /\ UNCHANGED << config, enabled, tables, lockHolder, tick, outcome, now >>

\* ----------------------------------------------------------------- sample
\* delay.tick().await completes: a new tick begins
AwaitTick ==
    /\ pc = "WaitingForTick"
    /\ pc' = "CheckingEnabled"
    /\ trace' = Append(trace, "tick")
    /\ UNCHANGED << loadResult, captured >>
    /\ UNCHANGED << config, enabled, built, tables, lockHolder, tick,
                    outcome, now >>

\* Return that keeps the guard alive
ReturnKeepsGuard(r, o) ==
    /\ pc' = "Idle"
    /\ ret' = r
    /\ outcome' = o
    /\ lockHolder' = lockHolder

\* sample() returns r by path o: the guard is dropped if it is held
Return(r, o) ==
    /\ pc' = "Idle"
    /\ ret' = r
    /\ outcome' = o
    /\ lockHolder' = DropGuard(lockHolder)

\* SampleDisabled that also skips a tick when the last tick was disabled
SampleDisabledSticky ==
    /\ pc = "CheckingEnabled"
    /\ (~enabled \/ outcome = "disabled")
    /\ Return("Ok", "disabled")
    /\ trace' = Append(trace, "check")
    /\ UNCHANGED << loadResult, captured >>
    /\ UNCHANGED << config, enabled, built, tables, table_map, idx, tickObs,
                    now >>

\* SampleDisabled without the early return: the tick goes on to the handle
SampleDisabledFallsThrough ==
    /\ pc = "CheckingEnabled"
    /\ ~enabled
    /\ pc' = "Locking"
    /\ trace' = Append(trace, "check")
    /\ UNCHANGED << loadResult, captured >>
    /\ UNCHANGED << config, enabled, built, tables, lockHolder, tick,
                    outcome, now >>

\* if !self.sampler_config().enabled() { return Ok(()) }
SampleDisabled ==
    /\ pc = "CheckingEnabled"
    /\ ~enabled
    /\ Return("Ok", "disabled")
    /\ trace' = Append(trace, "check")
    /\ UNCHANGED << loadResult, captured >>
    /\ UNCHANGED << config, enabled, built, tables, table_map, idx, tickObs,
                    now >>

\* SampleNoHandle that tries the attachment again and stores a handle
SampleNoHandleRetries ==
    /\ pc = "CheckingEnabled"
    /\ enabled
    /\ (~featureBpf \/ bpf = "None")
    /\ Return("Ok", "nohandle")
    /\ bpf' = IF featureBpf THEN "Some" ELSE bpf
    /\ trace' = Append(trace, "check")
    /\ UNCHANGED << loadResult, captured >>
    /\ UNCHANGED << config, enabled, bpf_last, registered, initResult,
                    newResult, attempts, failed, attached, tables, table_map,
                    idx, tickObs, now >>

\* enabled, and `if let Some(ref bpf) = self.bpf` does not match (or the
\* block is compiled out): Ok(())
SampleNoHandle ==
    /\ pc = "CheckingEnabled"
    /\ enabled
    /\ (~featureBpf \/ bpf = "None")
    /\ Return("Ok", "nohandle")
    /\ trace' = Append(trace, "check")
    /\ UNCHANGED << loadResult, captured >>
    /\ UNCHANGED << config, enabled, built, tables, table_map, idx, tickObs,
                    now >>

\* enabled, and the handle is Some: go on to bpf.lock()
SampleHasHandle ==
    /\ pc = "CheckingEnabled"
    /\ enabled
    /\ featureBpf /\ bpf = "Some"
    /\ pc' = "Locking"
    /\ trace' = Append(trace, "check")
    /\ UNCHANGED << loadResult, captured >>
    /\ UNCHANGED << config, enabled, built, tables, lockHolder, tick,
                    outcome, now >>

\* let bpf = bpf.lock().unwrap(): blocks while the mutex is held
AcquireLock ==
    /\ pc = "Locking"
    /\ lockHolder = "none"
    /\ lockHolder' = "sampler"
    /\ pc' = "Reading"
    /\ idx' = 1
    /\ trace' = Append(trace, "lock")
    /\ UNCHANGED << loadResult, captured >>
    /\ UNCHANGED << config, enabled, built, tables, table_map, tickObs, ret,
                    outcome, now >>

\* ReadTableOk that starts to emit after the first table
ReadTableOkEmitsEarly ==
    /\ pc = "Reading"
    /\ LET t == TableNames[idx]
       IN table_map' = [x \in DOMAIN table_map \cup {t} |->
                          IF x = t THEN bpf_hash_char_to_map(tables[t])
                          ELSE table_map[x]]
    /\ idx' = 1
    /\ pc' = "Emitting"
    /\ trace' = Append(trace, "read")
    /\ UNCHANGED << loadResult, captured >>
    /\ UNCHANGED << config, enabled, built, tables, lockHolder, tickObs, ret,
                    outcome, now >>

\* table(name) succeeds: table_map.insert(name, bpf_hash_char_to_map(..))
ReadTableOk ==
    /\ pc = "Reading"
    /\ LET t == TableNames[idx]
       IN table_map' = [x \in DOMAIN table_map \cup {t} |->
                          IF x = t THEN bpf_hash_char_to_map(tables[t])
                          ELSE table_map[x]]
    /\ IF idx < Len(TableNames)
       THEN /\ idx' = idx + 1
            /\ pc' = "Reading"
       ELSE /\ idx' = 1
            /\ pc' = "Emitting"
    /\ trace' = Append(trace, "read")
    /\ UNCHANGED << loadResult, captured >>
    /\ UNCHANGED << config, enabled, built, tables, lockHolder, tickObs, ret,
                    outcome, now >>

\* ReadTableErr that skips the failing table and carries on
ReadTableErrSkips ==
    /\ pc = "Reading"
    /\ IF idx < Len(TableNames)
       THEN /\ idx' = idx + 1
            /\ pc' = "Reading"
       ELSE /\ idx' = 1
            /\ pc' = "Emitting"
    /\ trace' = Append(trace, "readfail")
    /\ UNCHANGED << loadResult, captured >>
    /\ UNCHANGED << config, enabled, built, tables, lockHolder, table_map,
                    tickObs, ret, outcome, now >>

\* table(name) fails: map_err(..)? returns the I/O error
ReadTableErr ==
    /\ pc = "Reading"
    /\ Return("IoErr", "readerr")
    /\ trace' = Append(trace, "readfail")
    /\ UNCHANGED << loadResult, captured >>
    /\ UNCHANGED << config, enabled, built, tables, table_map, idx, tickObs,
                    now >>

\* EmitOk that takes the table out of the snapshot as it resolves (remove
\* instead of get)
EmitOkDrains ==
    /\ pc = "Emitting"
    /\ idx <= Len(statistics)
    /\ LET stat == statistics[idx]
       IN /\ tickObs' = Append(tickObs, [stat |-> stat,
                                         val |-> Resolve(table_map, stat)])
          /\ table_map' = [x \in DOMAIN table_map \ {stat.table} |->
                              table_map[x]]
    /\ idx' = idx + 1
    /\ trace' = Append(trace, "record")
    /\ captured' = now
    /\ UNCHANGED loadResult
    /\ UNCHANGED << pc, config, enabled, built, tables, lockHolder, ret,
                    outcome, now >>

\* one iteration of the for loop whose record_counter succeeds
EmitOk ==
    /\ pc = "Emitting"
    /\ idx <= Len(statistics)
    /\ LET stat == statistics[idx]
       IN tickObs' = Append(tickObs, [stat |-> stat,
                                      val |-> Resolve(table_map, stat)])
    /\ idx' = idx + 1
    /\ trace' = Append(trace, "record")
    /\ captured' = now
    /\ UNCHANGED loadResult
    /\ UNCHANGED << pc, config, enabled, built, tables, lockHolder, table_map,
                    ret, outcome, now >>

\* EmitErr that records the failing statistic all the same
EmitErrRecords ==
    /\ pc = "Emitting"
    /\ idx <= Len(statistics)
    /\ tickObs' = Append(tickObs, [stat |-> statistics[idx],
                                   val |-> Resolve(table_map, statistics[idx])])
    /\ Return("IoErr", "emiterr")
    /\ trace' = Append(trace, "recordfail")
    /\ captured' = now
    /\ UNCHANGED loadResult
    /\ UNCHANGED << config, enabled, built, tables, table_map, idx, now >>

\* one iteration of the for loop whose record_counter fails: map_err(..)?
EmitErr ==
    /\ pc = "Emitting"
    /\ idx <= Len(statistics)
    /\ Return("IoErr", "emiterr")
    /\ trace' = Append(trace, "recordfail")
    /\ UNCHANGED << loadResult, captured >>
    /\ UNCHANGED << config, enabled, built, tables, table_map, idx, tickObs,
                    now >>

\* the for loop is exhausted: end of the block, Ok(())
EmitDone ==
    /\ pc = "Emitting"
    /\ idx > Len(statistics)
    /\ Return("Ok", "done")
    /\ UNCHANGED << loadResult, history >>
    /\ UNCHANGED << config, enabled, built, tables, table_map, idx, tickObs,
                    now >>

\* LoopAgain that leaves the loop on an error (sampler.sample().await?)
LoopAgainUnlessErr ==
    /\ pc = "Idle"
    /\ pc' = IF ret = "IoErr" THEN "Stopped" ELSE "WaitingForTick"
    /\ ret' = "none"
    /\ table_map' = EmptyMap
    /\ tickObs' = << >>
    /\ idx' = 0
    /\ trace' = << >>
    /\ captured' = 0
    /\ UNCHANGED loadResult
    /\ UNCHANGED << config, enabled, built, tables, lockHolder, outcome, now >>

\* loop { let _ = sampler.sample().await; }: the result is discarded and
\* sample() is called again; its locals start afresh
LoopAgain ==
    /\ pc = "Idle"
    /\ pc' = "WaitingForTick"
    /\ ret' = "none"
    /\ table_map' = EmptyMap
    /\ tickObs' = << >>
    /\ idx' = 0
    /\ trace' = << >>
    /\ captured' = 0
    /\ UNCHANGED loadResult
    /\ UNCHANGED << config, enabled, built, tables, lockHolder, outcome, now >>

\* ------------------------------------------------------------ environment
\* the configuration's enabled flag is switched from outside
ToggleEnabled ==
    /\ enabled' = ~enabled
    /\ UNCHANGED << loadResult, history >>
    /\ UNCHANGED << pc, config, built, tables, lockHolder, tick, outcome, now >>

\* an attached probe fires in the kernel and increments its counter
ProbeFire ==
    /\ TotalCount < MaxCount
    /\ \E p \in attached, k \in RawKeys :
         LET t == TableOf(p)
             old == IF k \in DOMAIN tables[t] THEN tables[t][k] ELSE 0
         IN tables' = [tables EXCEPT ![t] =
                          [r \in DOMAIN tables[t] \cup {k} |->
                              IF r = k THEN old + 1 ELSE tables[t][r]]]
    /\ UNCHANGED << loadResult, history >>
    /\ UNCHANGED << pc, config, enabled, built, lockHolder, tick, outcome,
                    now >>

\* another holder of the Arc<Mutex<BPF>> takes the lock
ReaderAcquire ==
    /\ bpf = "Some"
    /\ lockHolder = "none"
    /\ lockHolder' = "reader"
    /\ UNCHANGED << loadResult, history >>
    /\ UNCHANGED << pc, config, enabled, built, tables, tick, outcome, now >>

\* and gives it back
ReaderRelease ==
    /\ lockHolder = "reader"
    /\ lockHolder' = "none"
    /\ UNCHANGED << loadResult, history >>
    /\ UNCHANGED << pc, config, enabled, built, tables, tick, outcome, now >>

\* time passes
AdvanceClock ==
    /\ now < MaxTime
    /\ now' = now + 1
    /\ UNCHANGED << loadResult, history >>
    /\ UNCHANGED << pc, config, enabled, built, tables, lockHolder, tick,
                    outcome >>

\* ------------------------------------------------------------------- spec
Next ==
    \/ SpawnDisabled
    \/ SpawnEnabled
    \/ AwaitTick
    \/ SampleDisabled
    \/ SampleNoHandle
    \/ SampleHasHandle
    \/ AcquireLock
    \/ ReadTableOk
    \/ ReadTableErr
    \/ EmitOk
    \/ EmitErr
    \/ EmitDone
    \/ LoopAgain
    \/ ToggleEnabled
    \/ ProbeFire
    \/ ReaderAcquire
    \/ ReaderRelease
    \/ AdvanceClock

Spec == Init /\ [][Next]_vars

\* the runtime keeps polling the task, the cadence signal keeps firing, the
\* mutex is eventually granted to a waiter and a reader gives it back
SamplerStep ==
    \/ AwaitTick
    \/ SampleDisabled
    \/ SampleNoHandle
    \/ SampleHasHandle
    \/ ReadTableOk
    \/ ReadTableErr
    \/ EmitOk
    \/ EmitErr
    \/ EmitDone
    \/ LoopAgain

FairSpec ==
    /\ Init /\ [][Next]_vars
    /\ WF_vars(SamplerStep)
    /\ SF_vars(AcquireLock)
    /\ WF_vars(ReaderRelease)

\* ----------------------------------------------------------------- claims
\* positions inside the spawned task
RunningPcs ==
    { "WaitingForTick", "CheckingEnabled", "Locking", "Reading", "Emitting",
      "Idle" }

AllTables == {TableNames[i] : i \in 1..Len(TableNames)}

\* snapshot[table][key] if both are present, else 0
SnapshotValue(tm, t, k) ==
    IF t \in DOMAIN tm /\ k \in DOMAIN tm[t] THEN tm[t][k] ELSE 0

\* the first n statistics, each with its value in the snapshot
ResolvedPrefix(tm, stats, n) ==
    [i \in 1..n |-> [stat |-> stats[i],
                     val |-> SnapshotValue(tm, stats[i].table, stats[i].key)]]

\* one observation of value 0 per configured statistic
ZeroPerStatistic(stats) ==
    [i \in 1..Len(stats) |-> [stat |-> stats[i], val |-> 0]]

\* C1: an enabled tick that finds no handle records exactly one observation
\* of value 0 for every configured statistic.
C1_NoHandleEmitsZeros ==
    (pc = "Idle" /\ outcome = "nohandle") =>
        tickObs = ZeroPerStatistic(statistics)

\* C2: an enabled tick with a handle, whose three reads and all records
\* succeed, has recorded one observation per configured statistic, in the
\* order of the list, each with the value the snapshot holds for its
\* (table, key), or 0 when the table or the key is absent.
C2_ResolvedInOrder ==
    (pc = "Idle" /\ outcome = "done") =>
        /\ DOMAIN table_map = AllTables
        /\ tickObs = ResolvedPrefix(table_map, statistics, Len(statistics))

\* a finished tick with a counted value and, in the same table, a key that
\* is absent
C2_Witness ==
    /\ pc = "Idle" /\ outcome = "done"
    /\ Len(tickObs) = MaxStats
    /\ \E i \in 1..Len(tickObs) : tickObs[i].val > 0
    /\ \E i \in 1..Len(tickObs) :
         /\ tickObs[i].stat.table \in DOMAIN table_map
         /\ table_map[tickObs[i].stat.table] # EmptyMap
         /\ tickObs[i].stat.key \notin DOMAIN table_map[tickObs[i].stat.table]
         /\ tickObs[i].val = 0

\* C3: a tick that finds the sampler disabled returns Ok at once: nothing is
\* recorded, the lock is neither taken nor held, no table is read, the
\* handle and the statistics are left alone; and a tick that has returned is
\* followed by the next wait.
C3_DisabledTickIsSilent ==
    [][ /\ (pc = "CheckingEnabled" /\ ~enabled /\ pc' # pc) =>
             /\ pc' = "Idle"
             /\ ret' = "Ok"
             /\ tickObs' = << >>
             /\ table_map' = EmptyMap
             /\ lockHolder # "sampler"
             /\ lockHolder' = lockHolder
             /\ bpf' = bpf
             /\ statistics' = statistics
        /\ (pc = "Idle" /\ pc' # pc) => pc' = "WaitingForTick"
      ]_vars

\* a disabled tick has returned although a handle exists and its lock is
\* held by somebody else
C3_Witness ==
    /\ pc = "Idle" /\ outcome = "disabled"
    /\ bpf = "Some"
    /\ lockHolder = "reader"

\* C4: in fault-tolerant mode a failed probe attachment leaves construction
\* successful with a handle, and every tick that gets through its reads and
\* records returns Ok with one observation per statistic, 0 for the
\* statistics of the tables whose probe failed.
C4_FaultTolerantAttach ==
    (fault_tolerant /\ failed # {}) =>
        /\ initResult = "Ok"
        /\ newResult = "Ok"
        /\ bpf = "Some"
        /\ pc \in RunningPcs
        /\ (pc = "Idle" /\ outcome = "done") =>
             /\ ret = "Ok"
             /\ Len(tickObs) = Len(statistics)
             /\ \A i \in 1..Len(tickObs) :
                  /\ tickObs[i].stat = statistics[i]
                  /\ (\E p \in failed : TableOf(p) = statistics[i].table)
                        => tickObs[i].val = 0

\* two probes failed, one attached and counted; a tick has finished
C4_Witness ==
    /\ fault_tolerant
    /\ Cardinality(failed) = 2
    /\ pc = "Idle" /\ outcome = "done"
    /\ \E i \in 1..Len(tickObs) : tickObs[i].val > 0
    /\ \E i \in 1..Len(tickObs), p \in failed :
         TableOf(p) = tickObs[i].stat.table

\* C5: without fault tolerance the first failed probe attachment ends
\* init_bpf with the error, no handle is stored, new returns Err, no task is
\* spawned and no tick ever runs.
C5_StrictAttachFailure ==
    (~fault_tolerant /\ failed # {}) =>
        /\ initResult = "Err"
        /\ failed = {attempts[Len(attempts)]}
        /\ bpf = "None"
        /\ attached = {}
        /\ newResult = "Err"
        /\ pc = "Fatal"
        /\ tickObs = << >>
        /\ ret = "none"
        /\ outcome = "none"

\* the second probe failed after the first attached: the third was not tried
C5_Witness ==
    /\ ~fault_tolerant
    /\ attempts = << ProbeSpecs[1], ProbeSpecs[2] >>
    /\ failed = {ProbeSpecs[2]}
    /\ pc = "Fatal"

\* C6: a tick in which a table read fails returns an I/O error and records
\* nothing; observations are only ever recorded from a snapshot that holds
\* all three tables.
C6_ReadErrorEmitsNothing ==
    /\ (pc = "Idle" /\ outcome = "readerr") =>
          (ret = "IoErr" /\ tickObs = << >>)
    /\ (tickObs # << >>) => DOMAIN table_map = AllTables

\* the third read failed after two tables, one of them counted, were read
C6_Witness ==
    /\ pc = "Idle" /\ outcome = "readerr"
    /\ Cardinality(DOMAIN table_map) = 2
    /\ \E t \in DOMAIN table_map : table_map[t] # EmptyMap

\* C7: when record_counter fails for the k-th statistic the tick returns an
\* I/O error, holds exactly the observations of the k-1 statistics before
\* it, and the emit loop of a later tick starts at the first statistic with
\* nothing recorded.
C7_EmitErrorAborts ==
    /\ []((pc = "Idle" /\ outcome = "emiterr") =>
            /\ ret = "IoErr"
            /\ idx \in 1..Len(statistics)
            /\ tickObs = ResolvedPrefix(table_map, statistics, idx - 1))
    /\ [][ /\ (pc = "Emitting" /\ pc' = "Idle" /\ ret' = "IoErr") =>
                tickObs' = tickObs
           /\ (pc # "Emitting" /\ pc' = "Emitting") =>
                (idx' = 1 /\ tickObs' = << >>)
         ]_vars

\* the record of the third statistic failed after two were recorded
C7_Witness ==
    /\ pc = "Idle" /\ outcome = "emiterr"
    /\ idx = 3
    /\ Len(tickObs) = 2
    /\ \E i \in 1..2 : tickObs[i].val > 0

\* C8: once the task is spawned, every cycle ends (whatever its outcome), is
\* followed by another wait for the cadence signal, and the wait by another
\* cycle: the loop never stops.
C8_LoopNeverStops ==
    /\ (pc = "CheckingEnabled") ~> (pc = "Idle")
    /\ (pc = "Idle") ~> (pc = "WaitingForTick")
    /\ (pc = "WaitingForTick") ~> (pc = "CheckingEnabled")

\* a cycle that ended in an error has been followed by a new wait
C8_Witness ==
    /\ pc = "WaitingForTick"
    /\ outcome \in {"readerr", "emiterr"}

\* C9: the sampler has released the handle lock when it records: it never
\* holds the lock in the emit phase.
C9_LockReleasedBeforeEmit ==
    (pc = "Emitting") => lockHolder # "sampler"

\* C10: while the sampler waits for the cadence signal it does not hold the
\* handle lock.
C10_NoLockWhileWaiting ==
    (pc = "WaitingForTick") => lockHolder # "sampler"

\* the sampler waits after a tick that left through an error while it held
\* the lock, and a reader has since taken the lock
C10_Witness ==
    /\ pc = "WaitingForTick"
    /\ outcome = "emiterr"
    /\ lockHolder = "reader"

\* C11: while the task runs, the handle is neither stored, dropped nor
\* replaced, and nothing of the attachment is done again.
C11_HandleFixedAtConstruction ==
    [][ (pc \in RunningPcs) =>
          /\ bpf' = bpf
          /\ loadResult' = loadResult
          /\ initResult' = initResult
          /\ attempts' = attempts
          /\ failed' = failed
          /\ attached' = attached
      ]_vars

\* the load failed in fault-tolerant mode, and a tick ran without a handle
C11_Witness ==
    /\ pc = "Idle" /\ outcome = "nohandle"
    /\ loadResult = "Err"
    /\ bpf = "None"

\* C12 as stated: once the program is loaded all three probes are attempted,
\* whether or not one of them fails.
C12_AllProbesAttempted ==
    (loadResult = "Ok") => attempts = ProbeSpecs

\* C12 amended: the probes are attempted in the order of ProbeSpecs; in
\* fault-tolerant mode all three are attempted whatever fails; otherwise the
\* attempts stop at the first failure.
C12_ProbesInOrder ==
    (loadResult = "Ok") =>
        /\ Len(attempts) \in 1..Len(ProbeSpecs)
        /\ attempts = SubSeq(ProbeSpecs, 1, Len(attempts))
        /\ fault_tolerant => attempts = ProbeSpecs
        /\ (~fault_tolerant /\ failed = {}) => attempts = ProbeSpecs
        /\ (~fault_tolerant /\ failed # {}) =>
              failed = {attempts[Len(attempts)]}

\* the first probe failed and the two after it were attempted all the same
C12_Witness ==
    /\ fault_tolerant
    /\ ProbeSpecs[1] \in failed
    /\ attempts = ProbeSpecs
    /\ attached = {ProbeSpecs[2], ProbeSpecs[3]}

\* C13: a failed load makes init_bpf return the error, with or without
\* fault tolerance, before any probe is attempted and with no handle stored.
C13_LoadFailureIsFatal ==
    (loadResult = "Err") =>
        /\ initResult = "Err"
        /\ attempts = << >>
        /\ failed = {}
        /\ attached = {}
        /\ bpf = "None"

\* the load failed in fault-tolerant mode
C13_Witness ==
    /\ loadResult = "Err"
    /\ fault_tolerant
    /\ pc = "WaitingForTick"
    /\ outcome = "none"

\* C14: when init_bpf returns an error, new returns Err and nothing starts
\* if fault_tolerant is false; otherwise new returns Ok without a handle and
\* the sampling loop runs.
C14_ConstructionPolicy ==
    (initResult = "Err") =>
        IF fault_tolerant
        THEN /\ newResult = "Ok"
             /\ bpf = "None"
             /\ pc \in RunningPcs
        ELSE /\ newResult = "Err"
             /\ pc = "Fatal"
             /\ outcome = "none"
             /\ trace = << >>

\* init_bpf failed, the sampler was built all the same and a tick has fired
C14_Witness ==
    /\ initResult = "Err"
    /\ fault_tolerant
    /\ pc = "CheckingEnabled"

\* the number of accepted records among the steps of the tick
Records(tr) == Cardinality({i \in 1..Len(tr) : tr[i] = "record"})

\* C15: the steps of a cycle come in one order: the cadence signal first and
\* once, then the enablement check, then the lock, then the three table
\* reads, and records only after three successful reads.
C15_StepsInOrder ==
    /\ Len(tickObs) = Records(trace)
    /\ \A i \in 1..Len(trace) :
         /\ (i = 1) <=> (trace[i] = "tick")
         /\ (i = 2) <=> (trace[i] = "check")
         /\ (i = 3) <=> (trace[i] = "lock")
         /\ (i \in 4..6) <=> (trace[i] \in {"read", "readfail"})
         /\ (i >= 7) <=> (trace[i] \in {"record", "recordfail"})
         /\ (i >= 7) => \A j \in 4..6 : trace[j] = "read"

\* a tick that has recorded twice
C15_Witness ==
    /\ pc = "Emitting"
    /\ Len(trace) = 8
    /\ Len(tickObs) = 2

\* C16: the enablement check decides by the flag as it is at that tick, and
\* an enabled tick that follows a disabled one emits every statistic.
C16_EnablementReadAfresh ==
    /\ []((pc = "Emitting" /\ idx > Len(statistics) /\ outcome = "disabled")
            => tickObs = ResolvedPrefix(table_map, statistics, Len(statistics)))
    /\ [][ (pc = "CheckingEnabled" /\ pc' # pc) =>
              ((pc' = "Idle" /\ outcome' = "disabled") <=> ~enabled)
         ]_vars

\* the tick before was disabled; this one has emitted the whole list
C16_Witness ==
    /\ pc = "Emitting"
    /\ outcome = "disabled"
    /\ idx > Len(statistics)
    /\ Len(tickObs) = MaxStats
    /\ \E i \in 1..Len(tickObs) : tickObs[i].val > 0

\* C17: after a completed enabled tick bpf_last is the capture instant of
\* that tick.
C17_LastSampleUpdated ==
    (pc = "Idle" /\ outcome = "done" /\ tickObs # << >>) =>
        bpf_last = captured

\* C18: what the emit loop records is determined by the snapshot and the
\* statistics list alone, whatever the kernel tables have become meanwhile,
\* and the loop changes neither the snapshot nor the list.
C18_ResolutionIsPure ==
    /\ []((pc = "Emitting") =>
            tickObs = ResolvedPrefix(table_map, statistics, idx - 1))
    /\ [][ (pc = "Emitting") =>
              (table_map' = table_map /\ statistics' = statistics) ]_vars

\* mid-loop, with a kernel table that has moved on from the snapshot
C18_Witness ==
    /\ pc = "Emitting"
    /\ idx = 3
    /\ \E t \in DOMAIN table_map :
         bpf_hash_char_to_map(tables[t]) # table_map[t]
    /\ \E i \in 1..Len(tickObs) : tickObs[i].val > 0

\* C19: whatever the way a tick ends, the sampler does not hold the handle
\* lock once sample() has returned.
C19_LockReleasedOnReturn ==
    (pc = "Idle") => lockHolder # "sampler"

\* the first table read failed right after the lock was taken
C19_Witness ==
    /\ pc = "Idle"
    /\ trace = << "tick", "check", "lock", "readfail" >>
    /\ lockHolder = "none"

\* C20: when spawn finds the sampler disabled nothing is built, and nothing
\* ever is, even if the flag is switched on later.
C20_DisabledAtSpawn ==
    /\ []((pc = "NotSpawned") =>
            /\ loadResult = "none"
            /\ initResult = "none"
            /\ newResult = "none"
            /\ attempts = << >>
            /\ attached = {}
            /\ bpf = "None"
            /\ ~registered
            /\ outcome = "none"
            /\ trace = << >>
            /\ tickObs = << >>)
    /\ [][ (pc = "NotSpawned") => pc' = "NotSpawned" ]_vars

\* spawn found the sampler disabled and the flag has since been switched on
C20_Witness ==
    /\ pc = "NotSpawned"
    /\ enabled

====
